---- MODULE Spec2Model ----
(***************************************************************************)
(* Model of appengine/uploader/batch_creator.py: create_batch and the      *)
(* converters it calls.                                                    *)
(*                                                                         *)
(* Python text is a sequence of one-character strings, so that the string  *)
(* operations of the source (split, replace, lower, capitalize, join,      *)
(* digit filtering) are computed and not assumed.                          *)
(*                                                                         *)
(* A Python value is a record [t, s, n, l, o]:                             *)
(*   t = "null"  None                                                      *)
(*   t = "text"  str, characters in s                                      *)
(*   t = "num"   int, value in n                                           *)
(*   t = "bool"  bool, n = 1 for True and 0 for False                      *)
(*   t = "list"  list of str, elements in l                                *)
(*   t = "obj"   dict of str to str, <<key, text>> pairs in o              *)
(* A dict is the sequence of its <<key, value>> pairs in insertion order.  *)
(***************************************************************************)
EXTENDS Integers, Sequences, FiniteSets, TLC

VARIABLES
  constants,            \* the constants module: the deployment's configuration
  item_rows,            \* create_batch's argument: the rows, each a dict
  method,               \* create_batch's argument: constants.Method
  batch_id,             \* the enumerate() position of the next row
  batch,                \* {'entries': [...]}
  skipped_item_ids,     \* list of item ids
  batch_id_to_item_id,  \* dict from batch id to item id
  pc,                   \* "loop", "returned" or "raised"
  exc                   \* the exception that left create_batch, as Raised(...)

vars == <<constants, item_rows, method, batch_id, batch, skipped_item_ids,
          batch_id_to_item_id, pc, exc>>

\* ------------------------------------------------------------------ values

None == [t |-> "null", s |-> <<>>, n |-> 0, l |-> <<>>, o |-> <<>>]

Text(chars) == [t |-> "text", s |-> chars, n |-> 0, l |-> <<>>, o |-> <<>>]

Num(k) == [t |-> "num", s |-> <<>>, n |-> k, l |-> <<>>, o |-> <<>>]

Bool(b) == [t |-> "bool", s |-> <<>>, n |-> IF b THEN 1 ELSE 0, l |-> <<>>, o |-> <<>>]

List(elems) == [t |-> "list", s |-> <<>>, n |-> 0, l |-> elems, o |-> <<>>]

Obj(pairs) == [t |-> "obj", s |-> <<>>, n |-> 0, l |-> <<>>, o |-> pairs]

\* Python truthiness, the test of `if value:`.
Truthy(value) ==
  CASE value.t = "null" -> FALSE
    [] value.t = "text" -> value.s # <<>>
    [] value.t = "num"  -> value.n # 0
    [] value.t = "bool" -> value.n # 0
    [] value.t = "list" -> value.l # <<>>
    [] value.t = "obj"  -> value.o # <<>>

\* ------------------------------------------------------------------ dicts

DictKeys(d) == {d[i][1] : i \in 1..Len(d)}

DictHas(d, key) == \E i \in 1..Len(d) : d[i][1] = key

DictGet(d, key) == d[CHOOSE i \in 1..Len(d) : d[i][1] = key][2]

\* d[key] = value: an existing key keeps its position.
DictSet(d, key, value) ==
  IF DictHas(d, key)
  THEN [i \in 1..Len(d) |-> IF d[i][1] = key THEN <<key, value>> ELSE d[i]]
  ELSE Append(d, <<key, value>>)

\* ------------------------------------------------------------------ text

LowerChars == <<"a","b","c","d","e","f","g","h","i","j","k","l","m",
                "n","o","p","q","r","s","t","u","v","w","x","y","z">>

UpperChars == <<"A","B","C","D","E","F","G","H","I","J","K","L","M",
                "N","O","P","Q","R","S","T","U","V","W","X","Y","Z">>

\* string.digits
digits == <<"0","1","2","3","4","5","6","7","8","9">>

LowerChar(c) ==
  IF \E i \in 1..Len(UpperChars) : UpperChars[i] = c
  THEN LowerChars[CHOOSE i \in 1..Len(UpperChars) : UpperChars[i] = c]
  ELSE c

UpperChar(c) ==
  IF \E i \in 1..Len(LowerChars) : LowerChars[i] = c
  THEN UpperChars[CHOOSE i \in 1..Len(LowerChars) : LowerChars[i] = c]
  ELSE c

\* str.lower()
lower(text) == [i \in 1..Len(text) |-> LowerChar(text[i])]

\* str.capitalize(): first character upper case, the rest lower case.
capitalize(text) ==
  [i \in 1..Len(text) |-> IF i = 1 THEN UpperChar(text[i]) ELSE LowerChar(text[i])]

\* str.replace(old, new) for one-character old and new.
replace(text, old, new) ==
  [i \in 1..Len(text) |-> IF text[i] = old THEN new ELSE text[i]]

\* str.split(sep) for a one-character sep: always at least one component.
RECURSIVE SplitFrom(_, _, _, _)
SplitFrom(text, sep, i, current) ==
  IF i > Len(text) THEN <<current>>
  ELSE IF text[i] = sep THEN <<current>> \o SplitFrom(text, sep, i + 1, <<>>)
  ELSE SplitFrom(text, sep, i + 1, Append(current, text[i]))

split(text, sep) == SplitFrom(text, sep, 1, <<>>)

\* ''.join(parts)
RECURSIVE join(_)
join(parts) == IF parts = <<>> THEN <<>> ELSE Head(parts) \o join(Tail(parts))

\* str(n) for an int.
RECURSIVE NatToStr(_)
NatToStr(k) ==
  IF k < 10 THEN <<digits[k + 1]>>
  ELSE NatToStr(k \div 10) \o <<digits[(k % 10) + 1]>>

IntToStr(k) == IF k < 0 THEN <<"-">> \o NatToStr(0 - k) ELSE NatToStr(k)

\* str(value) for the values a row can hold.
str(value) ==
  CASE value.t = "text" -> value.s
    [] value.t = "num"  -> IntToStr(value.n)
    [] value.t = "null" -> <<"N","o","n","e">>
    [] value.t = "bool" -> IF value.n = 1 THEN <<"T","r","u","e">>
                                            ELSE <<"F","a","l","s","e">>

\* ------------------------------------------------------------------ names

K_google_merchant_id == <<"g","o","o","g","l","e","_","m","e","r","c","h","a","n","t","_","i","d">>

K_item_id == <<"i","t","e","m","_","i","d">>

K_size == <<"s","i","z","e">>

K_additionalImageLink == <<"a","d","d","i","t","i","o","n","a","l","I","m","a","g","e","L","i","n","k">>

K_productType == <<"p","r","o","d","u","c","t","T","y","p","e">>

K_productTypes == <<"p","r","o","d","u","c","t","T","y","p","e","s">>

K_itemId == <<"i","t","e","m","I","d">>

K_offerId == <<"o","f","f","e","r","I","d">>

K_price == <<"p","r","i","c","e">>

K_salePrice == <<"s","a","l","e","P","r","i","c","e">>

K_shipping == <<"s","h","i","p","p","i","n","g">>

K_loyaltyPoints == <<"l","o","y","a","l","t","y","P","o","i","n","t","s">>

K_adwordsRedirect == <<"a","d","w","o","r","d","s","R","e","d","i","r","e","c","t">>

K_adsRedirect == <<"a","d","s","R","e","d","i","r","e","c","t">>

K_contentLanguage == <<"c","o","n","t","e","n","t","L","a","n","g","u","a","g","e">>

K_targetCountry == <<"t","a","r","g","e","t","C","o","u","n","t","r","y">>

K_channel == <<"c","h","a","n","n","e","l">>

K_currency == <<"c","u","r","r","e","n","c","y">>

K_value == <<"v","a","l","u","e">>

\* The default of item_row.get('item_id', '(Missing)').
MissingText == <<"(","M","i","s","s","i","n","g",")">>

_FIELDS_TO_IGNORE == {K_google_merchant_id}

\* ------------------------------------------------------------------ converters

_snake_to_camel_case(original_text) ==
  LET text == IF original_text # <<>>
              THEN <<LowerChar(original_text[1])>> \o SubSeq(original_text, 2, Len(original_text))
              ELSE original_text
      components == split(replace(text, " ", "_"), "_")
  IN  IF Len(components) > 1
      THEN lower(components[1])
             \o join([i \in 1..(Len(components) - 1) |-> capitalize(components[i + 1])])
      ELSE components[1]

_strip_unwanted_chars(price) ==
  SelectSeq(str(price), LAMBDA char : \E i \in 1..Len(digits) : digits[i] = char)

\* Mutant: the filter written as `value is not None`.
HasValidValue_NotNone(value) == value.t # "null"

_has_valid_value(value) ==
  IF Truthy(value) THEN TRUE
  ELSE IF value.t = "num" \/ value.t = "bool" THEN TRUE
  ELSE FALSE

\* The result of a call: a returned value, or the exception that left it
\* (exc = "" when it returned) with the source line that raised it.
Returned(v) == [exc |-> "", line |-> 0, val |-> v]

Raised(type, at) == [exc |-> type, line |-> at, val |-> <<>>]

\* original_value.split(',') if original_value else []
\* A truthy value that is no str has no split method: AttributeError.
SplitOrEmpty(original_value, at) ==
  IF Truthy(original_value)
  THEN IF original_value.t = "text"
       THEN Returned(List(split(original_value.s, ",")))
       ELSE Raised("AttributeError", at)
  ELSE Returned(List(<<>>))

\* return modified_key, modified_value: once modified_value was computed.
KeyWith(modified_key, modified_value) ==
  IF modified_value.exc # "" THEN modified_value
  ELSE Returned(<<modified_key, modified_value.val>>)

\* Lines 131-153: the rule of the camel-cased name.
ConvertKeyed(modified_key, original_value) ==
  IF modified_key \in {K_size, K_additionalImageLink, K_productType}
  THEN KeyWith(modified_key \o <<"s">>, SplitOrEmpty(original_value, 133))
  ELSE IF modified_key = K_itemId
  THEN Returned(<<K_offerId, original_value>>)
  ELSE IF modified_key \in {K_price, K_salePrice}
  THEN Returned(<<modified_key,
                  Obj(<< <<K_currency, constants.TARGET_CURRENCY>>,
                         <<K_value, _strip_unwanted_chars(original_value)>> >>)>>)
  ELSE IF modified_key = K_shipping
  THEN Returned(<<modified_key, List(<<>>)>>)
  ELSE IF modified_key = K_loyaltyPoints
  THEN Returned(<<modified_key, Obj(<<>>)>>)
  ELSE IF modified_key = K_adwordsRedirect
  THEN Returned(<<K_adsRedirect, original_value>>)
  ELSE IF modified_key = K_productTypes
  THEN KeyWith(modified_key, SplitOrEmpty(original_value, 150))
  ELSE Returned(<<modified_key,
                  IF original_value.t # "null" THEN original_value ELSE Text(<<>>)>>)

\* Returns <<modified_key, modified_value>>.
_convert_feed_field_to_api_field(original_key, original_value) ==
  ConvertKeyed(_snake_to_camel_case(original_key), original_value)

\* Lines 106-110: what the loop does with a field's conversion r. acc is
\* the dict so far.
StoreField(acc, item_row, r) ==
  IF r.exc = ""
  THEN IF _has_valid_value(r.val[2])
       THEN Returned(DictSet(acc, r.val[1], r.val[2]))
       ELSE Returned(acc)
  ELSE IF r.exc = "ValueError"
  THEN \* logging.debug(..., item_row['item_id'], ...)
       IF DictHas(item_row, K_item_id) THEN Returned(acc)
       ELSE Raised("KeyError", 110)
  ELSE r

\* One iteration of the loop over item_row.items(): before is the call's
\* state before the field, a Returned dict or the exception that left it.
ConvertField(before, item_row, field) ==
  IF before.exc # "" \/ field[1] \in _FIELDS_TO_IGNORE THEN before
  ELSE StoreField(before.val, item_row,
                  _convert_feed_field_to_api_field(field[1], field[2]))

\* dict.setdefault(key, value)
DictSetDefault(d, key, value) ==
  IF DictHas(d, key) THEN d ELSE Append(d, <<key, value>>)

\* Mutant: the metadata written with setdefault, a field of the row winning.
InjectMetadata_KeepRowFields(converted) ==
  IF converted.exc # "" THEN converted
  ELSE Returned(
         DictSetDefault(
           DictSetDefault(
             DictSetDefault(converted.val, K_contentLanguage,
                            Text(constants.CONTENT_LANGUAGE)),
             K_targetCountry, Text(constants.TARGET_COUNTRY)),
           K_channel, Text(constants.CHANNEL)))

\* Lines 111-115.
InjectMetadata(converted) ==
  IF converted.exc # "" THEN converted
  ELSE Returned(
         DictSet(
           DictSet(
             DictSet(converted.val, K_contentLanguage, Text(constants.CONTENT_LANGUAGE)),
             K_targetCountry, Text(constants.TARGET_COUNTRY)),
           K_channel, Text(constants.CHANNEL)))

_convert_item_to_content_api_format(item_row) ==
  LET after[i \in 0..Len(item_row)] ==
        IF i = 0 THEN Returned(<<>>)
        ELSE ConvertField(after[i - 1], item_row, item_row[i])
  IN  InjectMetadata(after[Len(item_row)])

\* str.format's rendering of a field value: the template's four fields hold
\* a configured text or a row's raw value.
FormatValue(value) == str(value)

\* _PRODUCT_ID_FORMAT.format(**formatted_item)
FormatProductId(formatted_item) ==
  IF \A k \in {K_channel, K_contentLanguage, K_targetCountry, K_offerId} :
       DictHas(formatted_item, k)
  THEN Returned(FormatValue(DictGet(formatted_item, K_channel)) \o <<":">>
                \o FormatValue(DictGet(formatted_item, K_contentLanguage)) \o <<":">>
                \o FormatValue(DictGet(formatted_item, K_targetCountry)) \o <<":">>
                \o FormatValue(DictGet(formatted_item, K_offerId)))
  ELSE Raised("KeyError", 78)

\* ------------------------------------------------------------------ create_batch

\* constants.Method and its values.
INSERT == "insert"

DELETE == "delete"

Method == {INSERT, DELETE}

\* Lines 54-65: the merchant id of a row, or the decision to skip it.
ResolveMerchantId(item_row) ==
  IF constants.IS_MCA
  THEN IF ~DictHas(item_row, K_google_merchant_id)
       THEN Raised("KeyError", 55)
       ELSE IF Truthy(DictGet(item_row, K_google_merchant_id))
       THEN Returned([skip |-> FALSE,
                      merchant_id |-> DictGet(item_row, K_google_merchant_id),
                      item_id |-> None])
       ELSE IF ~DictHas(item_row, K_item_id)
       THEN Raised("KeyError", 58)
       ELSE Returned([skip |-> TRUE, merchant_id |-> None,
                      item_id |-> DictGet(item_row, K_item_id)])
  ELSE Returned([skip |-> FALSE, merchant_id |-> constants.MERCHANT_ID,
                 item_id |-> None])

\* Mutant: the rows enumerated from 1.
NewEntry_OneBased(b_id, merchant_id, m) ==
  [keys |-> {"batchId", "merchantId", "method"},
   batchId |-> b_id + 1, merchantId |-> merchant_id, method |-> m,
   product |-> <<>>, productId |-> <<>>]

\* Mutant: batchId taken from the position in the output, not in the input.
NewEntry_OutputPosition(b_id, merchant_id, m) ==
  [keys |-> {"batchId", "merchantId", "method"},
   batchId |-> Len(batch.entries), merchantId |-> merchant_id, method |-> m,
   product |-> <<>>, productId |-> <<>>]

\* Lines 67-71: the entry before its payload. keys is the set of the
\* dict's keys; product and productId are read only when their key is there.
NewEntry(b_id, merchant_id, m) ==
  [keys |-> {"batchId", "merchantId", "method"},
   batchId |-> b_id, merchantId |-> merchant_id, method |-> m,
   product |-> <<>>, productId |-> <<>>]

\* Line 79.
WithProductId(entry, formatted_product_id) ==
  IF formatted_product_id.exc # "" THEN formatted_product_id
  ELSE Returned([entry EXCEPT !.keys = @ \cup {"productId"},
                              !.productId = formatted_product_id.val])

\* Mutant: product set for every method, productId added for DELETE.
AttachPayload_ProductAlways(entry, formatted_item, m) ==
  IF m = DELETE
  THEN WithProductId([entry EXCEPT !.keys = @ \cup {"product"},
                                   !.product = formatted_item],
                     FormatProductId(formatted_item))
  ELSE Returned([entry EXCEPT !.keys = @ \cup {"product"},
                              !.product = formatted_item])

\* Lines 75-79: the payload the method selects.
AttachPayload(entry, formatted_item, m) ==
  IF m = INSERT
  THEN Returned([entry EXCEPT !.keys = @ \cup {"product"},
                              !.product = formatted_item])
  ELSE IF m = DELETE
  THEN WithProductId(entry, FormatProductId(formatted_item))
  ELSE Returned(entry)

\* Lines 74-79, formatted_item being the result of line 74's call.
AfterConversion(entry, formatted_item, m) ==
  IF formatted_item.exc # "" THEN formatted_item
  ELSE AttachPayload(entry, formatted_item.val, m)

\* Lines 67-79 for a row that is not skipped.
BuildEntry(b_id, merchant_id, item_row, m) ==
  AfterConversion(NewEntry(b_id, merchant_id, m),
                  _convert_item_to_content_api_format(item_row), m)

\* Line 81: item_row.get('item_id', '(Missing)')
ItemIdOrMissing(item_row) ==
  IF DictHas(item_row, K_item_id) THEN DictGet(item_row, K_item_id)
  ELSE Text(MissingText)

\* ------------------------------------------------------------------ inputs

T_A1 == <<"A","1">>

T_B2 == <<"B","2">>

T_C3 == <<"C","3">>

T_Z9 == <<"Z","9">>

T_77 == <<"7","7">>

T_88 == <<"8","8">>

K_title == <<"t","i","t","l","e">>

\* Rows as the warehouse can deliver them: fields hold text, a number or
\* null, and a field can be absent from a row.
RowUniverse ==
  { << <<K_size, Num(5)>> >>,
    << <<K_item_id, Text(T_A1)>>, <<K_google_merchant_id, Text(T_77)>>,
       <<K_price, Text(<<"1","0",",","0","0","0"," ","y","e","n">>)>>, <<K_size, Text(<<"M",",","L">>)>> >>,
    << <<K_item_id, Text(T_A1)>>, <<K_price, Text(<<"1","0","0">>)>>,
       <<K_size, Text(<<"M",",","L">>)>> >>,
    << <<K_item_id, Text(T_B2)>>, <<K_google_merchant_id, Text(<<>>)>> >>,
    << <<K_item_id, Text(T_B2)>>, <<K_google_merchant_id, None>>,
       <<K_title, Text(<<"t">>)>> >>,
    << <<K_google_merchant_id, Text(<<>>)>>, <<K_title, Text(<<"t">>)>> >>,
    << <<K_google_merchant_id, Text(T_88)>>, <<K_title, None>> >>,
    << <<K_item_id, Text(<<>>)>>, <<K_google_merchant_id, Text(T_77)>> >>,
    << <<K_item_id, None>>, <<K_google_merchant_id, Text(T_88)>> >>,
    << <<K_item_id, Text(T_C3)>>, <<K_google_merchant_id, Text(T_77)>>,
       <<K_size, Num(5)>> >>,
    << <<K_item_id, Text(T_C3)>>, <<K_google_merchant_id, Text(T_88)>>,
       <<<<"p","r","o","d","u","c","t","_","t","y","p","e","s">>, Num(7)>> >>,
    << <<K_item_id, Text(T_C3)>>, <<K_google_merchant_id, Text(T_88)>>,
       <<K_size, Num(0)>>, <<K_price, Num(5)>>, <<K_shipping, Text(<<"x">>)>>,
       <<<<"l","o","y","a","l","t","y","_","p","o","i","n","t","s">>, Text(<<"y">>)>>, <<K_title, None>>,
       <<<<"p","r","o","d","u","c","t","_","t","y","p","e","s">>, None>> >>,
    << <<K_item_id, Text(T_A1)>>, <<K_google_merchant_id, Text(T_88)>>,
       <<K_channel, Text(<<"x">>)>>, <<<<"c","o","n","t","e","n","t","_","l","a","n","g","u","a","g","e">>, Text(<<"y">>)>>,
       <<<<"t","a","r","g","e","t","_","c","o","u","n","t","r","y">>, Text(<<"z">>)>> >>,
    << <<K_item_id, Num(0)>>, <<K_google_merchant_id, Num(77)>>,
       <<<<"s","a","l","e","_","p","r","i","c","e">>, None>>, <<<<"P","r","o","d","u","c","t"," ","T","y","p","e">>, Text(<<",">>)>>,
       <<<<"a","d","w","o","r","d","s","_","r","e","d","i","r","e","c","t">>, Text(<<"u">>)>> >>,
    << <<K_item_id, Text(T_A1)>>, <<K_google_merchant_id, Text(T_77)>>,
       <<<<"o","f","f","e","r","_","i","d">>, Text(T_Z9)>> >> }

\* The longest item_rows explored.
MaxRows == 2

\* The deployment's configuration: content language, target country and
\* channel, with the merchant id, the currency and the multi-client flag.
MetadataTexts == { <<<<"e","n">>, <<"U","S">>, <<"o","n","l","i","n","e">>>>, <<<<"j","a">>, <<"J","P">>, <<"l","o","c","a","l">>>> }

\* The code reads the configured texts as they are and checks none of them:
\* a deployment can leave one empty.
AnyMetadataTexts == MetadataTexts \cup { <<<<"e","n">>, <<"U","S">>, <<>>>>, <<<<>>, <<>>, <<>>>> }

ConfigurationsOf(texts) ==
  { [IS_MCA |-> mca, MERCHANT_ID |-> Text(<<"1","2","3","4">>),
     CONTENT_LANGUAGE |-> meta[1], TARGET_COUNTRY |-> meta[2],
     CHANNEL |-> meta[3], TARGET_CURRENCY |-> <<"U","S","D">>] :
    mca \in BOOLEAN, meta \in texts }

NoException == Raised("", 0)

\* Lines 49-51, for a configuration and the call's arguments.
InitWith(configurations) ==
  /\ constants \in configurations
  /\ item_rows \in UNION {[1..k -> RowUniverse] : k \in 0..MaxRows}
  /\ method \in Method
  /\ batch_id = 0
  /\ batch = [entries |-> <<>>]
  /\ skipped_item_ids = <<>>
  /\ batch_id_to_item_id = <<>>
  /\ pc = "loop"
  /\ exc = NoException

Init == InitWith(ConfigurationsOf(MetadataTexts))

InitAnyConfig == InitWith(ConfigurationsOf(AnyMetadataTexts))

Inputs == <<constants, item_rows, method>>

Outputs == <<batch, skipped_item_ids, batch_id_to_item_id>>

\* The row the loop is at.
item_row == item_rows[batch_id + 1]

InLoop == pc = "loop" /\ batch_id < Len(item_rows)

\* The outcome of lines 54-65 for the row the loop is at.
Resolved == ResolveMerchantId(item_row)

\* The outcome of lines 67-79 for the row the loop is at.
Built == BuildEntry(batch_id, Resolved.val.merchant_id, item_row, method)

\* Mutant: the skipped row's item id is not recorded.
SkipRow_NotRecorded ==
  /\ InLoop
  /\ Resolved.exc = ""
  /\ Resolved.val.skip
  /\ batch_id' = batch_id + 1
  /\ UNCHANGED <<Inputs, Outputs, pc, exc>>

\* Lines 57-63: the row has no usable merchant id; continue with the next.
SkipRow ==
  /\ InLoop
  /\ Resolved.exc = ""
  /\ Resolved.val.skip
  /\ skipped_item_ids' = Append(skipped_item_ids, DictGet(item_row, K_item_id))
  /\ batch_id' = batch_id + 1
  /\ UNCHANGED <<Inputs, batch, batch_id_to_item_id, pc, exc>>

\* Lines 55 and 58: a row without the field read raises KeyError.
RaiseInResolve ==
  /\ InLoop
  /\ exc' = Resolved
  /\ exc'.exc # ""
  /\ pc' = "raised"
  /\ UNCHANGED <<Inputs, batch_id, Outputs>>

\* Mutant: the index keyed by the entry's position in the batch.
AppendBuilt_IndexByPosition(e) ==
  /\ e.exc = ""
  /\ batch' = [batch EXCEPT !.entries = Append(@, e.val)]
  /\ batch_id_to_item_id' =
       DictSet(batch_id_to_item_id, Len(batch.entries), ItemIdOrMissing(item_row))

\* The entry e is appended and indexed: lines 80-81.
AppendBuilt(e) ==
  /\ e.exc = ""
  /\ batch' = [batch EXCEPT !.entries = Append(@, e.val)]
  /\ batch_id_to_item_id' =
       DictSet(batch_id_to_item_id, batch_id, ItemIdOrMissing(item_row))

\* Lines 67-81: the row's entry is built, appended and indexed.
AppendEntry ==
  /\ InLoop
  /\ Resolved.exc = ""
  /\ ~Resolved.val.skip
  /\ AppendBuilt(Built)
  /\ batch_id' = batch_id + 1
  /\ UNCHANGED <<Inputs, skipped_item_ids, pc, exc>>

\* Lines 74 and 78: an exception of the conversion or of the template
\* leaves create_batch, which catches none.
RaiseInBuild ==
  /\ InLoop
  /\ Resolved.exc = ""
  /\ ~Resolved.val.skip
  /\ exc' = Built
  /\ exc'.exc # ""
  /\ pc' = "raised"
  /\ UNCHANGED <<Inputs, batch_id, Outputs>>

\* Line 83.
Return ==
  /\ pc = "loop"
  /\ batch_id = Len(item_rows)
  /\ pc' = "returned"
  /\ UNCHANGED <<Inputs, batch_id, Outputs, exc>>

Next == SkipRow \/ RaiseInResolve \/ AppendEntry \/ RaiseInBuild \/ Return

Spec == Init /\ [][Next]_vars

\* The same, for deployments that may leave a configured text empty.
SpecAnyConfig == InitAnyConfig /\ [][Next]_vars

\* ------------------------------------------------------------------ properties

Entries == batch.entries

EntryIndexes == 1..Len(Entries)

\* The row an entry says it comes from.
SourceRow(e) == item_rows[e.batchId + 1]

\* A raw value that is neither null nor empty text.
NonEmptyRaw(v) == v.t = "num" \/ v.t = "bool" \/ (v.t = "text" /\ v.s # <<>>)

\* The row has no account identifier: the field is absent, null or empty.
MerchantMissingOrEmpty(row) ==
  \/ ~DictHas(row, K_google_merchant_id)
  \/ ~NonEmptyRaw(DictGet(row, K_google_merchant_id))

\* Positions (one-based) of the rows create_batch is done with.
Processed == 1..batch_id

\* C1: at every point between two rows and on return, in both modes and for
\* both methods, the keys of batch_id_to_item_id are exactly the batchIds of
\* the entries of the batch, one key per entry.
C1_IndexKeysAreEntryBatchIds ==
  /\ DictKeys(batch_id_to_item_id) = {Entries[i].batchId : i \in EntryIndexes}
  /\ Len(batch_id_to_item_id) = Len(Entries)

C1_Witness ==
  /\ pc = "returned"
  /\ constants.IS_MCA
  /\ skipped_item_ids # <<>>
  /\ Len(Entries) = 1
  /\ Entries[1].batchId = 1
  /\ DictKeys(batch_id_to_item_id) = {1}

\* C2: in single-account mode create_batch returns for every input, with an
\* empty skip list and one entry per row, each with the configured merchant id.
C2_SingleAccountOneEntryPerRow ==
  ~constants.IS_MCA =>
    /\ pc # "raised"
    /\ skipped_item_ids = <<>>
    /\ pc = "returned" => Len(Entries) = Len(item_rows)
    /\ \A i \in EntryIndexes : Entries[i].merchantId = constants.MERCHANT_ID

\* C3: in multi-client mode a row whose account identifier is missing or
\* empty never aborts the batch; once processed its item id is in the skip
\* list and it has no entry and no index key, and every processed row with an
\* identifier has an entry with that identifier as merchantId.
C3_MissingMerchantIsSkipped ==
  constants.IS_MCA =>
    /\ pc = "raised" => ~MerchantMissingOrEmpty(item_row)
    /\ \A j \in Processed :
         IF MerchantMissingOrEmpty(item_rows[j])
         THEN /\ \A i \in EntryIndexes : Entries[i].batchId # j - 1
              /\ ~DictHas(batch_id_to_item_id, j - 1)
              /\ DictHas(item_rows[j], K_item_id)
              /\ \E k \in 1..Len(skipped_item_ids) :
                   skipped_item_ids[k] = DictGet(item_rows[j], K_item_id)
         ELSE \E i \in EntryIndexes :
                /\ Entries[i].batchId = j - 1
                /\ Entries[i].merchantId = DictGet(item_rows[j], K_google_merchant_id)

\* C4: in INSERT mode no exception leaves create_batch because of the value
\* of a field: a row that got its merchant id gets its entry.
C4_NoExceptionForFieldValues ==
  (method = INSERT /\ pc = "raised") => exc.line \in {55, 58}

\* The text the template is filled with when the metadata are the
\* configured ones and the offer id is offer.
ConfiguredProductId(offer) ==
  constants.CHANNEL \o <<":">> \o constants.CONTENT_LANGUAGE \o <<":">>
    \o constants.TARGET_COUNTRY \o <<":">> \o str(offer)

\* Positions of the row's fields that end up under the key offerId: those
\* named itemId or offerId once camel-cased, with a value that is kept.
OfferFields(row) ==
  {k \in 1..Len(row) :
     /\ _snake_to_camel_case(row[k][1]) \in {K_itemId, K_offerId}
     /\ NonEmptyRaw(row[k][2])}

\* The value of the last of them: a later field overwrites an earlier one.
OfferValue(row) ==
  row[CHOOSE k \in OfferFields(row) : \A other \in OfferFields(row) : other <= k][2]

\* C5 as stated: in DELETE mode the template never lacks a key, and every
\* entry's productId is the configured metadata followed by the row's item_id.
C5_ProductIdAlwaysProduced ==
  method = DELETE =>
    /\ ~(pc = "raised" /\ exc.line = 78)
    /\ \A i \in EntryIndexes :
         /\ DictHas(SourceRow(Entries[i]), K_item_id)
         /\ Entries[i].productId =
              ConfiguredProductId(DictGet(SourceRow(Entries[i]), K_item_id))

\* C5 amended: in DELETE mode the metadata parts of every productId are the
\* configured values, and the last part is the row's offer id, which exists
\* only if a field named item_id (or offer_id) holds a number or non-empty
\* text; a row without one raises KeyError at the template (line 78) and
\* gets no entry.
C5_ProductIdNeedsOfferId ==
  method = DELETE =>
    /\ \A i \in EntryIndexes :
         /\ OfferFields(SourceRow(Entries[i])) # {}
         /\ Entries[i].productId = ConfiguredProductId(OfferValue(SourceRow(Entries[i])))
    /\ (pc = "raised" /\ exc.line = 78) => OfferFields(item_row) = {}

C5_Witness ==
  /\ method = DELETE
  /\ pc = "returned"
  /\ constants.CHANNEL # <<>>
  /\ \E i \in EntryIndexes :
       /\ DictHas(SourceRow(Entries[i]), K_channel)
       /\ DictGet(SourceRow(Entries[i]), K_channel) # Text(constants.CHANNEL)
       /\ Entries[i].productId =
            ConfiguredProductId(DictGet(SourceRow(Entries[i]), K_item_id))

\* C6: every entry's batchId is the zero-based position of its source row
\* among all input rows, skipped ones included: the batchIds grow strictly
\* along the entries, the entry's merchant id is that row's (multi-client
\* mode), and the index maps the batchId to that row's item id.
C6_BatchIdIsInputPosition ==
  /\ \A i \in EntryIndexes :
       /\ Entries[i].batchId \in 0..(batch_id - 1)
       /\ constants.IS_MCA =>
            /\ DictHas(SourceRow(Entries[i]), K_google_merchant_id)
            /\ Entries[i].merchantId = DictGet(SourceRow(Entries[i]), K_google_merchant_id)
       /\ DictHas(batch_id_to_item_id, Entries[i].batchId)
       /\ DictGet(batch_id_to_item_id, Entries[i].batchId) =
            IF DictHas(SourceRow(Entries[i]), K_item_id)
            THEN DictGet(SourceRow(Entries[i]), K_item_id)
            ELSE Text(MissingText)
  /\ \A i, j \in EntryIndexes : i < j => Entries[i].batchId < Entries[j].batchId

C6_Witness ==
  /\ pc = "returned"
  /\ constants.IS_MCA
  /\ Len(skipped_item_ids) = 1
  /\ Len(Entries) = 1
  /\ Entries[1].batchId = 1
  /\ DictGet(batch_id_to_item_id, 1) = DictGet(item_rows[2], K_item_id)
  /\ DictGet(item_rows[1], K_item_id) # DictGet(item_rows[2], K_item_id)

\* C7 as stated: the i-th entry (zero-based) has batchId i.
C7_BatchIdsContiguous ==
  \A i \in EntryIndexes : Entries[i].batchId = i - 1

\* The rows before position b (zero-based) that multi-client mode skipped.
SkippedBefore(b) ==
  {j \in 1..b : constants.IS_MCA /\ MerchantMissingOrEmpty(item_rows[j])}

\* The positions (zero-based) of the processed rows that were not skipped.
NotSkipped == {j - 1 : j \in Processed \ SkippedBefore(batch_id)}

\* C7 amended: the batchIds of the entries are, in order, the input
\* positions of the rows that were not skipped: the i-th entry (zero-based)
\* has batchId i plus the number of rows skipped before its source row, which
\* is i in single-account mode and more than i after a skipped row.
C7_BatchIdsSkipOverSkippedRows ==
  \A i \in EntryIndexes :
    /\ Entries[i].batchId \in NotSkipped
    /\ Cardinality({b \in NotSkipped : b < Entries[i].batchId}) = i - 1
    /\ Entries[i].batchId = (i - 1) + Cardinality(SkippedBefore(Entries[i].batchId))
    /\ ~constants.IS_MCA => Entries[i].batchId = i - 1

C7_Witness ==
  /\ constants.IS_MCA
  /\ pc = "returned"
  /\ Len(Entries) = 1
  /\ Entries[1].batchId = 1
  /\ SkippedBefore(1) = {1}

\* The item ids of the rows at the given positions, in input order.
RECURSIVE ItemIdsOf(_, _)
ItemIdsOf(positions, upto) ==
  IF upto = 0 THEN <<>>
  ELSE IF upto \in positions
  THEN Append(ItemIdsOf(positions, upto - 1), DictGet(item_rows[upto], K_item_id))
  ELSE ItemIdsOf(positions, upto - 1)

\* C8: in multi-client mode, between two rows and on return, the entries and
\* the skip list together count the rows processed so far, at most len(rows)
\* and exactly len(rows) on return; every processed row has either its one
\* entry or its one element of the skip list, never both and never neither.
C8_EveryRowEntryOrSkipped ==
  constants.IS_MCA =>
    /\ Len(Entries) + Len(skipped_item_ids) = batch_id
    /\ batch_id <= Len(item_rows)
    /\ pc = "returned" => Len(Entries) + Len(skipped_item_ids) = Len(item_rows)
    /\ \A j \in Processed :
         Cardinality({i \in EntryIndexes : Entries[i].batchId = j - 1})
           = IF j \in SkippedBefore(batch_id) THEN 0 ELSE 1
    /\ skipped_item_ids = ItemIdsOf(SkippedBefore(batch_id), batch_id)

C8_Witness ==
  /\ constants.IS_MCA
  /\ pc = "returned"
  /\ Len(item_rows) = 2
  /\ Len(Entries) = 1
  /\ Len(skipped_item_ids) = 1
  /\ Entries[1].batchId = 0
  /\ SkippedBefore(2) = {2}

\* A value the Value Filter is meant to drop: null, empty text, an empty
\* list or an empty object.
EmptyValue(v) ==
  \/ v.t = "null"
  \/ v.t = "text" /\ v.s = <<>>
  \/ v.t = "list" /\ v.l = <<>>
  \/ v.t = "obj" /\ v.o = <<>>

MetadataKeys == {K_contentLanguage, K_targetCountry, K_channel}

\* The formatted items handed out: the product of every INSERT entry.
Products == {Entries[i].product : i \in {k \in EntryIndexes : method = INSERT}}

\* C9 as stated: for every row and every configuration no field of a
\* formatted item, the three metadata fields included, has an empty value.
C9_NoEmptyField ==
  \A product \in Products : \A k \in 1..Len(product) : ~EmptyValue(product[k][2])

\* C9 amended: every field of a formatted item other than contentLanguage,
\* targetCountry and channel has a value that is not empty (so shipping and
\* loyaltyPoints never appear); those three are always there and hold the
\* configured texts as they are, empty when the configured text is empty.
C9_OnlyMetadataCanBeEmpty ==
  \A product \in Products :
    /\ \A k \in 1..Len(product) :
         product[k][1] \notin MetadataKeys => ~EmptyValue(product[k][2])
    /\ ~DictHas(product, K_shipping)
    /\ ~DictHas(product, K_loyaltyPoints)
    /\ MetadataKeys \subseteq DictKeys(product)
    /\ DictGet(product, K_contentLanguage) = Text(constants.CONTENT_LANGUAGE)
    /\ DictGet(product, K_targetCountry) = Text(constants.TARGET_COUNTRY)
    /\ DictGet(product, K_channel) = Text(constants.CHANNEL)

C9_Witness ==
  /\ method = INSERT
  /\ pc = "returned"
  /\ constants.CHANNEL = <<>>
  /\ \E i \in EntryIndexes :
       /\ DictHas(SourceRow(Entries[i]), K_shipping)
       /\ DictGet(SourceRow(Entries[i]), K_title) = None
       /\ DictKeys(Entries[i].product) = MetadataKeys \cup {K_offerId, K_price}
       /\ DictGet(Entries[i].product, K_channel) = Text(<<>>)

\* C10: every entry carries exactly one of product and productId, the one
\* its method selects: the formatted item under product for INSERT, the
\* product id under productId for DELETE.
C10_ExactlyOnePayload ==
  \A i \in EntryIndexes :
    /\ Entries[i].method = method
    /\ method = INSERT =>
         /\ Entries[i].keys = {"batchId", "merchantId", "method", "product"}
         /\ MetadataKeys \subseteq DictKeys(Entries[i].product)
    /\ method = DELETE =>
         /\ Entries[i].keys = {"batchId", "merchantId", "method", "productId"}
         /\ Entries[i].productId # <<>>

C10_Witness ==
  /\ pc = "returned"
  /\ method = DELETE
  /\ Len(Entries) = 2
  /\ \A i \in EntryIndexes : "productId" \in Entries[i].keys /\ "product" \notin Entries[i].keys

====
